---- MODULE Spec2Model ----
(***************************************************************************)
(* A model of the Ollama concurrency benchmark (run.py): one batch of      *)
(* `requests` request tasks throttled by an asyncio.Semaphore of           *)
(* `concurrency` permits, the per-request result records, and the          *)
(* statistics computed from them when the batch has been gathered; and of  *)
(* the sweep (sweep.py) that runs one batch per concurrency level.         *)
(*                                                                         *)
(* asyncio is cooperative: a task runs from one await to the next without  *)
(* interleaving, so every action below is one such run-to-await segment.   *)
(* Python's None is the empty tuple, a present value v the 1-tuple <<v>>.  *)
(* Floats that are quotients of integers are kept as pairs <<num, den>>.   *)
(* HTTP status codes are kept as strings ("200"), since the status field   *)
(* of a record also holds the string "exception".                          *)
(***************************************************************************)
EXTENDS Integers, Sequences, FiniteSets, TLC

\* ---------------------------------------------------------------- bounds
MaxRequests == 2
MaxConcurrency == 2
MaxTime == 2
\* the gathered result lists the statistics are applied to
MaxOkSamples == 150
MaxFailSamples == 50
MaxLatency == 3
\* the longest list of concurrency levels of a sweep
MaxLevels == 2

\* ------------------------------------------------------------- constants
\* statistics.quantiles(ok_latencies, n=100)[94] needs len(ok_latencies) >= 100
P95MinSamples == 100
\* statistics.quantiles(..., n=100): the number of equal-probability divisions
QuantileN == 100
\* [94]: the 95th cut point (index 94 of the 99 cut points)
QuantileI == 95

None == <<>>
Some(v) == <<v>>

VARIABLES
    concurrency,    \* args.concurrency
    requests,       \* args.requests
    main,           \* where _run_batch is: init, create, gather, aggregate, done, raised
    sem,            \* the semaphore's free permits (asyncio.Semaphore._value)
    tasks,          \* the tasks created so far, in creation order
    pc,             \* where each _one_request task is
    started,        \* each task's local `started` (None before line 49 ran)
    acquired,       \* when each task got its permit (history, not in the code)
    waited,         \* whether each task found the gate closed at line 50 (history)
    finished,       \* when each task's POST returned or failed (history)
    answer,         \* what each task's POST returned or raised (history)
    results,        \* the shared list of result records
    owner,          \* owner[i]: the task that appended results[i] (history)
    now,            \* the reading of time.perf_counter()
    batch_start,    \* _run_batch's local batch_start
    batch_elapsed,  \* _run_batch's local batch_elapsed
    summary,        \* None, or the summary _run_batch returns
    concurrency_list,   \* args.concurrency_list of sweep.py
    latency_threshold,  \* args.latency_threshold
    error_threshold,    \* args.error_threshold
    sweep,          \* where sweep.py is: none (run.py alone), loop, running,
                    \* returned, reported, raised
    level,          \* how many iterations of _sweep's loop have been entered
    trouble_at,     \* _sweep's local trouble_at
    records,        \* _sweep's list of summaries
    oks,            \* the value of `ok` computed for each level (history)
    printed,        \* how many summary lines main() has printed
    verdict         \* None, or the verdict main() printed

batchVars == <<concurrency, requests, main, sem, tasks, pc, started, acquired,
               waited, finished, answer, results, owner, now, batch_start,
               batch_elapsed, summary>>

sweepVars == <<concurrency_list, latency_threshold, error_threshold, sweep, level,
               trouble_at, records, oks, printed, verdict>>

vars == <<batchVars, sweepVars>>

\* run.py on its own: no sweep is running
NoSweep ==
    /\ concurrency_list = <<>>
    /\ latency_threshold = <<0, 1>>
    /\ error_threshold = <<0, 1>>
    /\ sweep = "none"
    /\ level = 0
    /\ trouble_at = None
    /\ records = <<>>
    /\ oks = <<>>
    /\ printed = 0
    /\ verdict = None

Requests == 1..requests

\* ------------------------------------------------- what the server answers
\* What `await client.post(...)` gives: a transport exception, or a response
\* with a status code and a body that resp.json() can or cannot parse.
Responses ==
    { [kind |-> "transport", status |-> "none", parseable |-> FALSE] }
    \cup { [kind |-> "response", status |-> "200", parseable |-> p] : p \in BOOLEAN }
    \cup { [kind |-> "response", status |-> "500", parseable |-> FALSE] }

\* The exception raised inside the try block (lines 52-64) for answer r, if any:
\* client.post raises on a transport failure, resp.json() on an unparseable body.
Raised(r) ==
    IF r.kind = "transport" THEN Some("TransportError")
    ELSE IF r.status = "200" /\ ~r.parseable THEN Some("JSONDecodeError")
    ELSE None

ExceptClause_OnlyTransport(exc) == exc = "TransportError"

\* `except Exception` (line 65): both exception classes derive from Exception.
ExceptClause(exc) == exc \in {"TransportError", "JSONDecodeError"}

Latency_FromAcquire(t) == now - acquired[t][1]

\* time.perf_counter() - started (lines 53 and 66)
Latency(t) == now - started[t][1]

Entry_KeepStatus(t, r) ==
    [latency |-> Latency(t),
     status |-> IF r.kind = "transport" THEN "exception" ELSE r.status]

\* The record a task builds (lines 53-71): the try block's entry when nothing
\* was raised, the except block's entry otherwise.
Entry(t, r) ==
    IF Raised(r) = None
    THEN [latency |-> Latency(t), status |-> r.status]
    ELSE [latency |-> Latency(t), status |-> "exception"]

CanAcquire_Always == TRUE

\* asyncio.Semaphore.acquire returns without waiting only while permits are left
CanAcquire == sem > 0

Release_Leak == sem

Release_Twice == sem + 2

\* asyncio.Semaphore.release, run by `async with sem` on every exit
Release == sem + 1

\* ----------------------------------------------------------- statistics
IsOk(r) == r.status = "200"

OkLatencies_All(rs) == [i \in 1..Len(rs) |-> rs[i].latency]

\* ok_latencies = [r["latency"] for r in results if r["status"] == 200]
OkLatencies(rs) ==
    LET ok == SelectSeq(rs, IsOk)
    IN  [i \in 1..Len(ok) |-> ok[i].latency]

CountLE(data, v) == Cardinality({i \in DOMAIN data : data[i] <= v})

Kth_Unsorted(data, k) == data[k]

\* sorted(data)[k-1]: the k-th smallest element of data, 1 <= k <= len(data)
Kth(data, k) ==
    LET vals == {data[i] : i \in DOMAIN data}
    IN  CHOOSE v \in vals :
            /\ CountLE(data, v) >= k
            /\ \A w \in vals : CountLE(data, w) >= k => v <= w

\* statistics.median(data), len(data) >= 1: the middle element, or the mean of
\* the two middle elements
Median(data) ==
    LET n == Len(data)
        i == n \div 2
    IN  IF n % 2 = 1
        THEN <<Kth(data, i + 1), 1>>
        ELSE <<Kth(data, i) + Kth(data, i + 1), 2>>

\* statistics.quantiles(data, n=100)[94], method 'exclusive', len(data) >= 2
Quantile95(data) ==
    LET ld == Len(data)
        m == ld + 1
        j0 == (QuantileI * m) \div QuantileN
        j == IF j0 < 1 THEN 1 ELSE IF j0 > ld - 1 THEN ld - 1 ELSE j0
        delta == QuantileI * m - j * QuantileN
    IN  <<Kth(data, j) * (QuantileN - delta) + Kth(data, j + 1) * delta, QuantileN>>

P50_Zero(ok) == IF ok /= <<>> THEN Some(Median(ok)) ELSE Some(<<0, 1>>)

\* p50 = statistics.median(ok_latencies) if ok_latencies else None
P50(ok) == IF ok /= <<>> THEN Some(Median(ok)) ELSE None

P95_AnySize(ok) == IF Len(ok) >= 2 THEN Some(Quantile95(ok)) ELSE None

P95_Strict(ok) == IF Len(ok) > P95MinSamples THEN Some(Quantile95(ok)) ELSE None

\* p95 = quantiles(ok_latencies, n=100)[94] if len(ok_latencies) >= 100 else None
P95(ok) == IF Len(ok) >= P95MinSamples THEN Some(Quantile95(ok)) ELSE None

ErrorRate_EmptyZero(rs, ok) ==
    IF rs /= <<>> THEN <<Len(rs) - Len(ok), Len(rs)>> ELSE <<0, 1>>

\* error_rate = 1 - (len(ok_latencies) / len(results)) if results else 1.0
ErrorRate(rs, ok) ==
    IF rs /= <<>> THEN <<Len(rs) - Len(ok), Len(rs)>> ELSE <<1, 1>>

\* rps = len(results) / batch_elapsed if batch_elapsed > 0 else 0
Rps(rs, elapsed) == IF elapsed > 0 THEN <<Len(rs), elapsed>> ELSE <<0, 1>>

\* The summary dict of _run_batch (the fields computed from the batch)
Summary(rs, elapsed) ==
    LET ok_latencies == OkLatencies(rs)
    IN  [concurrency |-> concurrency,
         requests |-> requests,
         p50_latency |-> P50(ok_latencies),
         p95_latency |-> P95(ok_latencies),
         rps |-> Rps(rs, elapsed),
         error_rate |-> ErrorRate(rs, ok_latencies),
         total_time |-> elapsed]

\* ------------------------------------------------------------- the batch
Init ==
    /\ concurrency \in -1..MaxConcurrency
    /\ requests \in 0..MaxRequests
    /\ main = "init"
    /\ sem = 0
    /\ tasks = <<>>
    /\ pc = [t \in Requests |-> "none"]
    /\ started = [t \in Requests |-> None]
    /\ acquired = [t \in Requests |-> None]
    /\ waited = [t \in Requests |-> FALSE]
    /\ finished = [t \in Requests |-> None]
    /\ answer = [t \in Requests |-> None]
    /\ results = <<>>
    /\ owner = <<>>
    /\ now = 0
    /\ batch_start = 0
    /\ batch_elapsed = 0
    /\ summary = None
    /\ NoSweep

FreshResults_Kept == results

\* results: List[Dict] = [] (line 86)
FreshResults == <<>>

\* Lines 85-90: asyncio.Semaphore(args.concurrency) raises ValueError for a
\* negative value and accepts every other one, 0 included; then the empty
\* result list, the empty task list, the client and batch_start.
ConstructGate ==
    /\ main = "init"
    /\ IF concurrency < 0
       THEN /\ main' = "raised"
            /\ UNCHANGED <<sem, batch_start, results, owner, tasks>>
       ELSE /\ main' = "create"
            /\ sem' = concurrency
            /\ results' = FreshResults
            /\ owner' = <<>>
            /\ tasks' = <<>>
            /\ batch_start' = now
    /\ UNCHANGED sweepVars
    /\ UNCHANGED <<concurrency, requests, pc, started, acquired, waited,
                   finished, answer, now, batch_elapsed, summary>>

\* Lines 91-94: one iteration of the loop; create_task schedules the task, which
\* cannot run before _run_batch awaits.
CreateTask ==
    /\ main = "create"
    /\ Len(tasks) < requests
    /\ LET t == Len(tasks) + 1
       IN  /\ tasks' = Append(tasks, t)
           /\ pc' = [pc EXCEPT ![t] = "created"]
    /\ UNCHANGED sweepVars
    /\ UNCHANGED <<concurrency, requests, main, sem, started, acquired, waited,
                   finished, answer, results, owner, now, batch_start, batch_elapsed, summary>>

\* Line 95: the loop is over and _run_batch awaits gather(*tasks).
AwaitGather ==
    /\ main = "create"
    /\ Len(tasks) >= requests
    /\ main' = "gather"
    /\ UNCHANGED sweepVars
    /\ UNCHANGED <<concurrency, requests, sem, tasks, pc, started, acquired,
                   waited, finished, answer, results, owner, now, batch_start, batch_elapsed,
                   summary>>

\* Lines 49-52, a task's first run: stamp `started`, then enter `async with sem`:
\* with a permit free the task takes it and sends its POST, otherwise it waits.
TaskStart(t) ==
    /\ main = "gather"
    /\ pc[t] = "created"
    /\ started' = [started EXCEPT ![t] = Some(now)]
    /\ IF CanAcquire
       THEN /\ sem' = sem - 1
            /\ acquired' = [acquired EXCEPT ![t] = Some(now)]
            /\ pc' = [pc EXCEPT ![t] = "posting"]
            /\ UNCHANGED waited
       ELSE /\ pc' = [pc EXCEPT ![t] = "waiting"]
            /\ waited' = [waited EXCEPT ![t] = TRUE]
            /\ UNCHANGED <<sem, acquired>>
    /\ UNCHANGED sweepVars
    /\ UNCHANGED <<concurrency, requests, main, tasks, finished, answer, results, owner,
                   now, batch_start, batch_elapsed, summary>>

\* Lines 50-52, a waiting task is woken: it takes a permit and sends its POST.
Acquire(t) ==
    /\ pc[t] = "waiting"
    /\ CanAcquire
    /\ sem' = sem - 1
    /\ acquired' = [acquired EXCEPT ![t] = Some(now)]
    /\ pc' = [pc EXCEPT ![t] = "posting"]
    /\ UNCHANGED sweepVars
    /\ UNCHANGED <<concurrency, requests, main, tasks, started, waited, finished,
                   answer, results, owner, now, batch_start, batch_elapsed, summary>>

\* Lines 52-72 and the exit of `async with sem`: the POST returns or fails with
\* answer r, the task builds its record, appends it and releases its permit. An
\* exception the except clause does not catch leaves the task without a record;
\* the permit is released all the same.
Respond(t, r) ==
    /\ pc[t] = "posting"
    /\ IF Raised(r) /= None /\ ~ExceptClause(Raised(r)[1])
       THEN /\ pc' = [pc EXCEPT ![t] = "raised"]
            /\ UNCHANGED <<results, owner>>
       ELSE /\ results' = Append(results, Entry(t, r))
            /\ owner' = Append(owner, t)
            /\ pc' = [pc EXCEPT ![t] = "done"]
    /\ sem' = Release
    /\ finished' = [finished EXCEPT ![t] = Some(now)]
    /\ answer' = [answer EXCEPT ![t] = Some(r)]
    /\ UNCHANGED sweepVars
    /\ UNCHANGED <<concurrency, requests, main, tasks, started, acquired, waited,
                   now, batch_start, batch_elapsed, summary>>

GatherDone_First == requests = 0 \/ \E t \in Requests : pc[t] = "done"

\* asyncio.gather(*tasks) returns once every task has returned
GatherDone == \A t \in Requests : pc[t] = "done"

\* asyncio.gather(*tasks) re-raises the first exception a task ended with
GatherRaised == \E t \in Requests : pc[t] = "raised"

\* Lines 95-96: gather returns when every task is done, or re-raises the first
\* exception of a task; on return the client is closed and batch_elapsed taken.
GatherReturn ==
    /\ main = "gather"
    /\ (GatherRaised \/ GatherDone)
    /\ IF GatherRaised
       THEN /\ main' = "raised"
            /\ UNCHANGED batch_elapsed
       ELSE /\ main' = "aggregate"
            /\ batch_elapsed' = now - batch_start
    /\ UNCHANGED sweepVars
    /\ UNCHANGED <<concurrency, requests, sem, tasks, pc, started, acquired,
                   waited, finished, answer, results, owner, now, batch_start, summary>>

\* Lines 99-121: the statistics and the summary.
Aggregate ==
    /\ main = "aggregate"
    /\ summary' = Some(Summary(results, batch_elapsed))
    /\ main' = "done"
    /\ UNCHANGED sweepVars
    /\ UNCHANGED <<concurrency, requests, sem, tasks, pc, started, acquired,
                   waited, finished, answer, results, owner, now, batch_start, batch_elapsed>>

\* time.perf_counter() is monotonic: it may advance between any two steps of a
\* running batch.
Tick ==
    /\ main \in {"create", "gather"}
    /\ now < MaxTime
    /\ now' = now + 1
    /\ UNCHANGED sweepVars
    /\ UNCHANGED <<concurrency, requests, main, sem, tasks, pc, started, acquired,
                   waited, finished, answer, results, owner, batch_start, batch_elapsed,
                   summary>>

\* The steps of _run_batch and of its tasks
BatchStep ==
    \/ ConstructGate
    \/ CreateTask
    \/ AwaitGather
    \/ \E t \in Requests : TaskStart(t)
    \/ \E t \in Requests : Acquire(t)
    \/ \E t \in Requests : \E r \in Responses : Respond(t, r)
    \/ GatherReturn
    \/ Aggregate

Next == BatchStep \/ Tick

Spec == Init /\ [][Next]_vars

\* ------------------------------------------------------------ the claims
RecordsOf(t) == {i \in DOMAIN owner : owner[i] = t}

InFlight == {t \in Requests : pc[t] = "posting"}

\* An answer that is a failure of the request: a transport exception, a status
\* other than 200, or a 200 whose body cannot be parsed.
IsFailure(r) == r.kind = "transport" \/ r.status /= "200" \/ ~r.parseable

NumOk == Cardinality({i \in DOMAIN results : results[i].status = "200"})

NumFailed == Cardinality({i \in DOMAIN results : results[i].status /= "200"})

\* C1: a task has a record exactly when it has finished, and never two; the
\* batch goes on to its elapsed time and summary only when every one of the
\* `requests` tasks has finished, and the result list then holds exactly
\* `requests` records, one per task.
C1_OneRecordPerRequest ==
    /\ Len(owner) = Len(results)
    /\ \A t \in Requests :
          Cardinality(RecordsOf(t)) = (IF pc[t] = "done" THEN 1 ELSE 0)
    /\ main \in {"aggregate", "done"} =>
          /\ \A t \in Requests : pc[t] = "done"
          /\ Len(results) = requests
          /\ \A t \in Requests : Cardinality(RecordsOf(t)) = 1

C1_Witness ==
    /\ main = "done"
    /\ requests >= 2
    /\ concurrency < requests
    /\ \E i, j \in DOMAIN results :
          /\ results[i].status = "200"
          /\ results[j].status \in {"500", "exception"}

\* C2: once the gate exists, the free permits and the tasks with an outstanding
\* POST add up to the concurrency limit, the free permits are never negative (so
\* at most `concurrency` tasks are in flight), and every task in flight took a
\* permit before it sent.
C2_GateBound ==
    main \in {"create", "gather", "aggregate", "done"} =>
        /\ sem >= 0
        /\ Cardinality(InFlight) <= concurrency
        /\ sem + Cardinality(InFlight) = concurrency
        /\ \A t \in InFlight : acquired[t] /= None /\ finished[t] = None

C2_Witness ==
    /\ concurrency >= 1
    /\ sem = 0
    /\ Cardinality(InFlight) = concurrency
    /\ \E t \in Requests : pc[t] = "waiting"

\* C3: no task ends by raising and _run_batch raises only when the gate could
\* not be built; every failed request has its own record, with a non-success
\* status, also while siblings are still waiting, in flight or done with success.
C3_FailuresAreLocal ==
    /\ \A t \in Requests : pc[t] /= "raised"
    /\ main = "raised" => (concurrency < 0 /\ tasks = <<>>)
    /\ \A t \in Requests :
          (answer[t] /= None /\ IsFailure(answer[t][1])) =>
              /\ pc[t] = "done"
              /\ \E i \in RecordsOf(t) : results[i].status /= "200"

C3_Witness ==
    /\ main = "done"
    /\ \E t, u \in Requests :
          /\ answer[t] /= None /\ answer[t][1].kind = "response"
          /\ answer[t][1].status = "200" /\ ~answer[t][1].parseable
          /\ answer[u] /= None /\ ~IsFailure(answer[u][1])
          /\ \E i \in RecordsOf(t), j \in RecordsOf(u) :
                i < j /\ results[j].status = "200"

\* C4 (the claim as stated): with a concurrency that is not positive the batch
\* is rejected before it starts, so no request task is ever created.
C4_InvalidConcurrencyRejected ==
    concurrency <= 0 => (tasks = <<>> /\ \A t \in Requests : pc[t] = "none")

C9_AllFailedBatch ==
    (/\ requests >= 1
     /\ \A t \in Requests : answer[t] /= None /\ IsFailure(answer[t][1])) =>
        /\ main \in {"gather", "aggregate", "done"}
        /\ Len(results) = requests
        /\ \A i \in DOMAIN results : results[i].status /= "200"
        /\ main = "done" =>
              /\ summary /= None
              /\ summary[1].error_rate[1] = summary[1].error_rate[2]
              /\ summary[1].error_rate[2] > 0
              /\ summary[1].p50_latency = None
              /\ summary[1].p95_latency = None

C9_Witness ==
    /\ main = "done"
    /\ requests >= 2
    /\ summary /= None
    /\ summary[1].error_rate = <<requests, requests>>
    /\ \E t, u \in Requests :
          /\ answer[t][1].kind = "transport"
          /\ answer[u][1].kind = "response"
    /\ \A t \in Requests : IsFailure(answer[t][1])

\* C10: a 200 answer whose body cannot be parsed is recorded with status
\* "exception": it is not in the success set and counts as an error in the
\* summary; every record is exactly one of success (a 200 answer with a parsed
\* body), HTTP error (the answer's non-200 status) or exception.
C10_UnparseableIsException ==
    /\ \A i \in DOMAIN results :
          LET r == answer[owner[i]][1]
              st == results[i].status
          IN  /\ (r.kind = "response" /\ r.status = "200" /\ ~r.parseable) =>
                    (st = "exception" /\ ~IsOk(results[i]))
              /\ (st = "200") <=>
                    (r.kind = "response" /\ r.status = "200" /\ r.parseable)
              /\ (st = "exception") <=>
                    (r.kind = "transport" \/ (r.status = "200" /\ ~r.parseable))
              /\ (st \notin {"200", "exception"}) <=>
                    (r.kind = "response" /\ r.status /= "200" /\ st = r.status)
    /\ main = "done" =>
          /\ summary /= None
          /\ summary[1].error_rate[1] >=
                Cardinality({t \in Requests :
                    /\ answer[t][1].kind = "response"
                    /\ answer[t][1].status = "200"
                    /\ ~answer[t][1].parseable})

C10_Witness ==
    /\ main = "done"
    /\ \E i \in DOMAIN results :
          /\ answer[owner[i]][1].kind = "response"
          /\ answer[owner[i]][1].status = "200"
          /\ ~answer[owner[i]][1].parseable
          /\ results[i].status = "exception"
    /\ \E j \in DOMAIN results : results[j].status = "200"
    /\ summary[1].error_rate = <<1, 2>>

\* ------------------------------------------------- the batch, scheduled fairly
\* The event loop runs every task that is ready, and every POST that was sent
\* returns or fails: no step that stays possible is put off for ever. No step
\* of the batch reads the clock to decide what to do (it only goes into the
\* recorded latencies), so the clock is held still here.
Fairness ==
    /\ WF_vars(ConstructGate)
    /\ WF_vars(CreateTask)
    /\ WF_vars(AwaitGather)
    /\ WF_vars(GatherReturn)
    /\ WF_vars(Aggregate)
    /\ \A t \in 1..MaxRequests :
          /\ WF_vars(t \in Requests /\ TaskStart(t))
          /\ WF_vars(t \in Requests /\ Acquire(t))
          /\ WF_vars(t \in Requests /\ \E r \in Responses : Respond(t, r))

FairSpec == Init /\ [][BatchStep]_vars /\ Fairness

\* C5: with at least one permit, under fair scheduling and answers that always
\* arrive, every task waiting on the gate is admitted, and the batch completes
\* with one record per request.
C5_BatchCompletes ==
    /\ (main = "init" /\ concurrency >= 1) ~>
          (/\ main = "done"
           /\ summary /= None
           /\ Len(results) = requests
           /\ \A t \in Requests : pc[t] = "done" /\ Cardinality(RecordsOf(t)) = 1)
    /\ \A t \in 1..MaxRequests :
          (concurrency >= 1 /\ t \in Requests /\ pc[t] = "waiting") ~>
              (t \in Requests /\ pc[t] = "posting")

C5_Witness ==
    /\ main = "done"
    /\ concurrency >= 1
    /\ requests > concurrency
    /\ Len(results) = requests
    /\ \E t \in Requests : waited[t] /\ pc[t] = "done"

\* ----------------------------------- the statistics on gathered result lists
\* The state of _run_batch when gather has returned (line 96) for a batch whose
\* `requests` tasks were all admitted at once (concurrency = requests): nOk
\* successes, nHttp HTTP errors and nExc exceptions, task t finishing after
\* latency (t * stride) % (MaxLatency + 1), the records in one of three orders.
StatOkCounts ==
    {0, 1, 2, P95MinSamples - 1, P95MinSamples, P95MinSamples + 1, MaxOkSamples}

StatFailCounts == {0, 1, MaxFailSamples}

StatOrders == {"ok_first", "failed_first", "mixed"}

StatLatency(t, stride) == (t * stride) % (MaxLatency + 1)

StatAnswer(t, nOk, nHttp) ==
    IF t <= nOk THEN [kind |-> "response", status |-> "200", parseable |-> TRUE]
    ELSE IF t <= nOk + nHttp
         THEN [kind |-> "response", status |-> "500", parseable |-> FALSE]
         ELSE [kind |-> "transport", status |-> "none", parseable |-> FALSE]

\* The task whose record is the i-th of n: completion order is not submission
\* order.
StatOwner(i, n, order) ==
    IF order = "ok_first" THEN i
    ELSE IF order = "failed_first" THEN n + 1 - i
    ELSE IF i % 2 = 1 THEN (i + 1) \div 2 ELSE n + 1 - (i \div 2)

StatInit ==
    \E nOk \in StatOkCounts, nHttp \in StatFailCounts, nExc \in StatFailCounts,
       order \in StatOrders, stride \in {1, 3} :
        LET n == nOk + nHttp + nExc
            ans == [t \in 1..n |-> StatAnswer(t, nOk, nHttp)]
        IN  /\ requests = n
            /\ concurrency = IF n = 0 THEN 1 ELSE n
            /\ main = "aggregate"
            /\ sem = concurrency
            /\ tasks = [t \in 1..n |-> t]
            /\ pc = [t \in 1..n |-> "done"]
            /\ started = [t \in 1..n |-> Some(0)]
            /\ acquired = [t \in 1..n |-> Some(0)]
            /\ waited = [t \in 1..n |-> FALSE]
            /\ finished = [t \in 1..n |-> Some(StatLatency(t, stride))]
            /\ answer = [t \in 1..n |-> Some(ans[t])]
            /\ owner = [i \in 1..n |-> StatOwner(i, n, order)]
            /\ results = [i \in 1..n |->
                   [latency |-> StatLatency(owner[i], stride),
                    status |-> IF Raised(ans[owner[i]]) = None
                               THEN ans[owner[i]].status ELSE "exception"]]
            /\ now = MaxLatency
            /\ batch_start = 0
            /\ batch_elapsed = MaxLatency
            /\ summary = None
            /\ NoSweep

StatNext == Aggregate

StatSpec == StatInit /\ [][StatNext]_vars

\* C7: in every summary, p95 is present exactly when at least 100 records have
\* status 200, and p50 exactly when at least one has; records with another
\* status do not count, however many there are.
C7_PercentilePresence ==
    summary /= None =>
        /\ (summary[1].p95_latency /= None) <=> (NumOk >= P95MinSamples)
        /\ (summary[1].p50_latency /= None) <=> (NumOk >= 1)

C7_Witness ==
    /\ summary /= None
    /\ NumOk = P95MinSamples
    /\ NumFailed >= 1
    /\ summary[1].p95_latency /= None
    /\ summary[1].p50_latency /= None

\* C8: the error rate num/den of every summary is the number of non-success
\* records over the number of all records, lies in [0, 1], and is 1 when the
\* result list is empty or holds no success.
C8_ErrorRate ==
    summary /= None =>
        LET num == summary[1].error_rate[1]
            den == summary[1].error_rate[2]
        IN  /\ den > 0
            /\ 0 <= num /\ num <= den
            /\ results /= <<>> => num * Len(results) = NumFailed * den
            /\ (results = <<>> \/ NumFailed = Len(results)) => num = den

C8_Witness ==
    /\ summary /= None
    /\ NumOk = 150
    /\ NumFailed = 50
    /\ 4 * summary[1].error_rate[1] = summary[1].error_rate[2]
    /\ summary[1].p95_latency /= None

\* Other completion orders of the same records: the list reversed, the list
\* rotated by one, and the list in submission order.
Reversed(rs) == [i \in 1..Len(rs) |-> rs[Len(rs) + 1 - i]]

Rotated(rs) == [i \in 1..Len(rs) |-> rs[(i % Len(rs)) + 1]]

BySubmission(rs) ==
    [t \in 1..Len(rs) |-> rs[CHOOSE i \in DOMAIN owner : owner[i] = t]]

\* C11: the summary computed from the result list is the summary computed from
\* the same records in any other order (reversed, rotated, submission order):
\* p50, p95 (presence and value), error rate, rps and the record count agree.
C11_OrderIndependent ==
    summary /= None =>
        \A other \in {Reversed(results), Rotated(results), BySubmission(results)} :
            /\ Len(other) = Len(results)
            /\ Summary(other, batch_elapsed) = summary[1]

C11_Witness ==
    /\ summary /= None
    /\ summary[1].p95_latency /= None
    /\ summary[1].p50_latency /= None
    /\ NumFailed >= 1
    /\ Reversed(results) /= results
    /\ BySubmission(results) /= results
    /\ Rotated(results) /= Reversed(results)

\* The tasks that have left `async with sem`, and so released their permit
Released == {t \in Requests : pc[t] \in {"done", "raised"}}

\* C18: once the gate exists, its free permits are the limit minus one per
\* acquisition plus one per exit (each permit taken is given back exactly once,
\* whatever the answer was); a task that has released its permit has its record
\* in the list, so released <= records <= released + holding; and when the batch
\* has been gathered no permit is held.
C18_PermitAccounting ==
    main \in {"create", "gather", "aggregate", "done"} =>
        /\ sem = concurrency
                 - Cardinality({t \in Requests : acquired[t] /= None})
                 + Cardinality({t \in Requests : finished[t] /= None})
        /\ \A t \in Requests : (finished[t] /= None) <=> (t \in Released)
        /\ \A t \in Released : RecordsOf(t) /= {}
        /\ Cardinality(Released) <= Len(results)
        /\ Len(results) <= Cardinality(Released) + Cardinality(InFlight)
        /\ main \in {"aggregate", "done"} => (sem = concurrency /\ InFlight = {})

C18_Witness ==
    /\ main = "done"
    /\ concurrency = 1
    /\ sem = concurrency
    /\ Cardinality(Released) = requests
    /\ \E t, u \in Requests :
          /\ waited[u]
          /\ answer[t][1].kind = "transport"
          /\ answer[u][1].kind = "response"

\* -------------------------------------------------------------- the sweep
\* --latency-threshold and --error-threshold default to 30.0 and 0.05
LatencyThresholdDefault == <<30, 1>>

ErrorThresholdDefault == <<1, 20>>

\* a < b for quotients <<num, den>> with positive denominators
Less(a, b) == a[1] * b[2] < b[1] * a[2]

LessEq(a, b) == a[1] * b[2] <= b[1] * a[2]

\* The non-empty lists of at most n elements of S (-c takes one or more values)
Lists(S, n) == UNION {[1..k -> S] : k \in 1..n}

LevelOk_Inclusive(s) ==
    /\ s.p95_latency /= None
    /\ LessEq(s.p95_latency[1], latency_threshold)
    /\ LessEq(s.error_rate, error_threshold)

\* ok = p95 is not None and p95 < latency_threshold and error_rate <
\* error_threshold (lines 67-71)
LevelOk(s) ==
    /\ s.p95_latency /= None
    /\ Less(s.p95_latency[1], latency_threshold)
    /\ Less(s.error_rate, error_threshold)

TroubleAt_Overwrite(ok, conc) == IF ~ok THEN Some(conc) ELSE trouble_at

\* if not ok and trouble_at is None: trouble_at = conc (lines 72-73)
TroubleAt(ok, conc) == IF ~ok /\ trouble_at = None THEN Some(conc) ELSE trouble_at

LoopContinues_UntilTrouble == level < Len(concurrency_list) /\ trouble_at = None

\* for conc in args.concurrency_list (line 53): a next level is left
LoopContinues == level < Len(concurrency_list)

\* sweep.py started with the levels ls, n requests per level and latency
\* threshold lt: _sweep has set trouble_at and records (lines 50-51), and no
\* batch has been started.
SweepStarted(ls, n, lt) ==
    /\ concurrency_list = ls
    /\ latency_threshold = lt
    /\ error_threshold = ErrorThresholdDefault
    /\ sweep = "loop"
    /\ level = 0
    /\ trouble_at = None
    /\ records = <<>>
    /\ oks = <<>>
    /\ printed = 0
    /\ verdict = None
    /\ requests = n
    /\ concurrency = 0
    /\ main = "none"
    /\ sem = 0
    /\ tasks = <<>>
    /\ pc = [t \in 1..n |-> "none"]
    /\ started = [t \in 1..n |-> None]
    /\ acquired = [t \in 1..n |-> None]
    /\ waited = [t \in 1..n |-> FALSE]
    /\ finished = [t \in 1..n |-> None]
    /\ answer = [t \in 1..n |-> None]
    /\ results = <<>>
    /\ owner = <<>>
    /\ now = 0
    /\ batch_start = 0
    /\ batch_elapsed = 0
    /\ summary = None

\* Lines 53-64: the loop takes the next level and calls _run_batch with it; the
\* new call has no task yet and has not bound sem, results or tasks.
SweepStartLevel ==
    /\ sweep = "loop"
    /\ LoopContinues
    /\ level' = level + 1
    /\ concurrency' = concurrency_list[level + 1]
    /\ sweep' = "running"
    /\ main' = "init"
    /\ pc' = [t \in Requests |-> "none"]
    /\ started' = [t \in Requests |-> None]
    /\ acquired' = [t \in Requests |-> None]
    /\ waited' = [t \in Requests |-> FALSE]
    /\ finished' = [t \in Requests |-> None]
    /\ answer' = [t \in Requests |-> None]
    /\ summary' = None
    /\ UNCHANGED <<requests, sem, tasks, results, owner, now, batch_start,
                   batch_elapsed>>
    /\ UNCHANGED <<concurrency_list, latency_threshold, error_threshold,
                   trouble_at, records, oks, printed, verdict>>

\* Lines 64-73: _run_batch has returned its summary; it is appended to records,
\* `ok` is computed and the first level that is not ok is kept in trouble_at.
SweepLevelDone ==
    /\ sweep = "running"
    /\ main = "done"
    /\ LET ok == LevelOk(summary[1])
       IN  /\ records' = Append(records, summary[1])
           /\ oks' = Append(oks, ok)
           /\ trouble_at' = TroubleAt(ok, concurrency_list[level])
    /\ sweep' = "loop"
    /\ UNCHANGED batchVars
    /\ UNCHANGED <<concurrency_list, latency_threshold, error_threshold, level,
                   printed, verdict>>

\* Lines 53 and 75: the list is exhausted and _sweep returns.
SweepReturn ==
    /\ sweep = "loop"
    /\ ~LoopContinues
    /\ sweep' = "returned"
    /\ UNCHANGED batchVars
    /\ UNCHANGED <<concurrency_list, latency_threshold, error_threshold, level,
                   trouble_at, records, oks, printed, verdict>>

\* ------------------------------------- the sweep with its batches run in full
\* Every level's batch is run task by task. The clock is held still: no step
\* reads it to decide what to do.
SweepLevels == {1, MaxConcurrency}

SweepInit ==
    \E ls \in Lists(SweepLevels, MaxLevels), n \in 0..MaxRequests :
        SweepStarted(ls, n, LatencyThresholdDefault)

SweepNext ==
    \/ SweepStartLevel
    \/ BatchStep
    \/ SweepLevelDone
    \/ SweepReturn

SweepSpec == SweepInit /\ [][SweepNext]_vars

\* C16: while a level's batch runs, the summaries of all earlier levels are in
\* records and none of a later one; between levels no task is waiting or in
\* flight; and from the moment the batch has built its gate, the permits free
\* and held add up to this level's concurrency and the result list holds the
\* records of this batch's finished tasks and nothing else, so the batch starts
\* with all permits free and an empty list.
C16_LevelsSequentialAndFresh ==
    /\ sweep = "running" =>
          /\ Len(records) = level - 1
          /\ concurrency = concurrency_list[level]
    /\ sweep \in {"loop", "returned"} =>
          /\ Len(records) = level
          /\ \A t \in Requests : pc[t] \in {"none", "done"}
    /\ (sweep = "running" /\ main \in {"create", "gather", "aggregate", "done"}) =>
          /\ sem + Cardinality(InFlight) = concurrency
          /\ Len(results) = Cardinality({t \in Requests : pc[t] = "done"})
          /\ Len(owner) = Len(results)
          /\ \A t \in Requests :
                Cardinality(RecordsOf(t)) = (IF pc[t] = "done" THEN 1 ELSE 0)
          /\ (\A t \in Requests : pc[t] \in {"none", "created"}) =>
                (sem = concurrency /\ results = <<>>)

C16_Witness ==
    /\ sweep = "running"
    /\ level = 2
    /\ Len(records) = 1
    /\ records[1].concurrency /= concurrency
    /\ records[1].requests = 2
    /\ main = "gather"
    /\ Len(results) = 1
    /\ \E t \in Requests : pc[t] = "posting"

\* --------------------------------- the sweep on gathered batches, and report
\* Requests per level on either side of the 100 successes p95 needs; the larger
\* count is a multiple of 20, so an error rate of exactly 0.05 can occur.
StatSweepRequests == {P95MinSamples - 1, P95MinSamples + 20}

\* Levels that admit every task of a batch at once
StatSweepLevels == {MaxOkSamples, MaxOkSamples + 1}

\* The outcomes of a batch of n requests, as <<successes, stride>>: with
\* stride 1 the latencies run over 0..MaxLatency, with MaxLatency + 1 they are
\* all 0. All fail; one success short of a p95; an error rate of 1/20 (to the
\* nearest request); no failure and a p95 at MaxLatency; no failure and a p95
\* of 0.
StatSweepOutcomes(n) ==
    {o \in {<<0, 1>>,
            <<P95MinSamples - 1, 1>>,
            <<n - (n \div 20), MaxLatency + 1>>,
            <<n, 1>>,
            <<n, MaxLatency + 1>>} : o[1] <= n}

StatSweepThresholds == {<<MaxLatency, 1>>, <<MaxLatency + 1, 1>>}

SweepStatInit ==
    \E ls \in Lists(StatSweepLevels, MaxLevels), n \in StatSweepRequests,
       lt \in StatSweepThresholds :
        SweepStarted(ls, n, lt)

\* run.py lines 85-96 for a batch whose tasks are all admitted at once: the
\* gate and the result list are built, every task has run and appended its
\* record, gather has returned and batch_elapsed is taken.
LevelGathered ==
    /\ sweep = "running"
    /\ main = "init"
    /\ concurrency >= requests
    /\ \E o \in StatSweepOutcomes(requests) :
        LET n == requests
            nOk == o[1]
            stride == o[2]
            nHttp == (n - nOk) \div 2
            ans == [t \in 1..n |-> StatAnswer(t, nOk, nHttp)]
            own == [i \in 1..n |-> StatOwner(i, n, "mixed")]
        IN  /\ main' = "aggregate"
            /\ sem' = concurrency
            /\ tasks' = [t \in 1..n |-> t]
            /\ pc' = [t \in 1..n |-> "done"]
            /\ started' = [t \in 1..n |-> Some(now)]
            /\ acquired' = [t \in 1..n |-> Some(now)]
            /\ waited' = [t \in 1..n |-> FALSE]
            /\ finished' = [t \in 1..n |-> Some(now + StatLatency(t, stride))]
            /\ answer' = [t \in 1..n |-> Some(ans[t])]
            /\ owner' = own
            /\ results' = [i \in 1..n |->
                   [latency |-> StatLatency(own[i], stride),
                    status |-> IF Raised(ans[own[i]]) = None
                               THEN ans[own[i]].status ELSE "exception"]]
            /\ batch_start' = now
            /\ now' = now + MaxLatency
            /\ batch_elapsed' = MaxLatency
    /\ UNCHANGED <<concurrency, requests, summary>>
    /\ UNCHANGED sweepVars

\* The format spec .2f applied to a value: None has no such format and raises
\* TypeError (sweep.py line 97).
Formattable(v) == v /= None

\* Lines 95-99: the report line of the next record.
ReportLine ==
    /\ sweep \in {"returned", "reporting"}
    /\ printed < Len(records)
    /\ IF Formattable(records[printed + 1].p95_latency)
       THEN /\ printed' = printed + 1
            /\ sweep' = "reporting"
       ELSE /\ sweep' = "raised"
            /\ UNCHANGED printed
    /\ UNCHANGED batchVars
    /\ UNCHANGED <<concurrency_list, latency_threshold, error_threshold, level,
                   trouble_at, records, oks, verdict>>

\* `if trouble_at:` (line 101): None and 0 are false
Truthy(x) == x /= None /\ x[1] /= 0

\* Lines 101-104: the verdict, after the last report line.
ReportVerdict ==
    /\ sweep \in {"returned", "reporting"}
    /\ printed = Len(records)
    /\ verdict' = Some(IF Truthy(trouble_at) THEN "degrades" ELSE "none")
    /\ sweep' = "reported"
    /\ UNCHANGED batchVars
    /\ UNCHANGED <<concurrency_list, latency_threshold, error_threshold, level,
                   trouble_at, records, oks, printed>>

SweepStatNext ==
    \/ SweepStartLevel
    \/ LevelGathered
    \/ Aggregate
    \/ SweepLevelDone
    \/ SweepReturn
    \/ ReportLine
    \/ ReportVerdict

SweepStatSpec == SweepStatInit /\ [][SweepStatNext]_vars

\* _sweep has returned (line 75); main() may be reporting
SweepReturned == sweep \in {"returned", "reporting", "raised", "reported"}

\* C12: the summaries recorded so far are those of the first levels of the
\* list, one each and in list order, the i-th with the i-th level as its
\* concurrency; and when the sweep returns there is one for every level of the
\* list, whether or not a level that is not OK was found on the way.
C12_NeverStopsEarly ==
    /\ Len(records) <= Len(concurrency_list)
    /\ Len(records) \in {level - 1, level}
    /\ \A i \in 1..Len(records) : records[i].concurrency = concurrency_list[i]
    /\ SweepReturned => Len(records) = Len(concurrency_list)

C12_Witness ==
    /\ sweep = "returned"
    /\ Len(concurrency_list) = MaxLevels
    /\ concurrency_list[1] /= concurrency_list[2]
    /\ ~oks[1]
    /\ oks[2]
    /\ Len(records) = MaxLevels
    /\ records[2].concurrency = concurrency_list[2]

\* The positions of the recorded levels whose summary is not OK
NotOkLevels == {i \in 1..Len(records) : ~LevelOk(records[i])}

FirstNotOk ==
    IF NotOkLevels = {} THEN None
    ELSE Some(concurrency_list[CHOOSE i \in NotOkLevels : \A j \in NotOkLevels : i <= j])

\* The first-violation level is the earliest recorded level that is not OK
EarliestNotOk ==
    /\ trouble_at = FirstNotOk
    /\ (trouble_at = None) <=> (\A i \in 1..Len(records) : LevelOk(records[i]))

\* No step changes a first-violation level that has been set
NeverOverwritten == [][trouble_at /= None => trouble_at' = trouble_at]_vars

\* C13: at every moment of the sweep, and so when it returns, the first-
\* violation level is the earliest level in list order whose summary is not
\* OK, and it is `none` exactly when every summary so far is OK; a step never
\* changes it once it is set, whether the level just run is OK or not.
C13_FirstViolation == []EarliestNotOk /\ NeverOverwritten

C13_Witness ==
    /\ sweep = "returned"
    /\ Len(records) = 2
    /\ NotOkLevels = {1, 2}
    /\ concurrency_list[1] /= concurrency_list[2]
    /\ trouble_at = Some(concurrency_list[1])

Violates(s) ==
    \/ s.p95_latency /= None /\ ~Less(s.p95_latency[1], latency_threshold)
    \/ ~Less(s.error_rate, error_threshold)

ViolatingLevels == {i \in 1..Len(records) : Violates(records[i])}

\* C15: the level the sweep reports is the first level in list order whose
\* summary violates either threshold (p95 >= latency threshold or error rate >=
\* error-rate threshold), and no level is reported when none does; a level that
\* violates neither is never the reported one.
C15_ReportedLevelViolates ==
    trouble_at =
        IF ViolatingLevels = {} THEN None
        ELSE Some(concurrency_list[CHOOSE i \in ViolatingLevels :
                                       \A j \in ViolatingLevels : i <= j])

\* C17: the report never raises: main() gets through the summary lines to the
\* verdict for every sweep result.
C17_ReportCompletes == sweep /= "raised"

====
